---- MODULE Spec2Model ----
(***************************************************************************)
(* Model of getCommonConfig                                                *)
(* (packages/angular_devkit/build_angular/src/angular-cli-files/models/    *)
(*  webpack-configs/common.ts).                                            *)
(*                                                                         *)
(* A string is a sequence of characters.  The characters "/" and "." are   *)
(* kept as single characters, every other element of a sequence is a name  *)
(* fragment that contains neither of them ("main", "ts", "vendor").  So    *)
(* "../a" is <<".", ".", "/", "a">> and "..a" is <<".", ".", "a">>.        *)
(* The empty sequence stands for the empty string and for an absent        *)
(* (undefined) string option: the code tests both with the same truthiness *)
(* test.                                                                   *)
(***************************************************************************)
EXTENDS Integers, Sequences, FiniteSets, TLC

\* ------------------------------------------------------------------ bounds
MaxCalls == 2      \* calls of getCommonConfig on the same options object
MaxScripts == 3    \* entries of buildOptions.scripts given by the caller
MaxAssets == 2     \* entries of buildOptions.assets
MaxOutLen == 4     \* characters of an asset's output path

\* ------------------------------------------------------- string primitives
StartsWith(s, p) == Len(s) >= Len(p) /\ SubSeq(s, 1, Len(p)) = p

EndsWith(s, p) == Len(s) >= Len(p) /\ SubSeq(s, Len(s) - Len(p) + 1, Len(s)) = p

\* s.replace(/\\/g, '/')
ReplaceBackslashes(s) == [i \in 1..Len(s) |-> IF s[i] = "\\" THEN "/" ELSE s[i]]

\* s.replace(/^\//, ''): removes one leading slash
RemoveStartingSlash(s) == IF StartsWith(s, <<"/">>) THEN Tail(s) ELSE s

\* s.endsWith('/') ? s : s + '/'
AddSlashAtEnd(s) == IF EndsWith(s, <<"/">>) THEN s ELSE s \o <<"/">>

\* ------------------------------------------------------ node's path module
RECURSIVE SplitFrom(_, _, _)
SplitFrom(s, i, cur) ==
  IF i > Len(s) THEN <<cur>>
  ELSE IF s[i] = "/" THEN <<cur>> \o SplitFrom(s, i + 1, <<>>)
  ELSE SplitFrom(s, i + 1, Append(cur, s[i]))

\* the segments of s between slashes (empty segments included)
Split(s) == SplitFrom(s, 1, <<>>)

RECURSIVE JoinSegs(_)
JoinSegs(segs) ==
  IF segs = <<>> THEN <<>>
  ELSE IF Len(segs) = 1 THEN segs[1]
  ELSE segs[1] \o <<"/">> \o JoinSegs(Tail(segs))

\* posix normalizeString: drops "" and ".", resolves ".." against the
\* segments kept so far; above the start ".." is kept only if allowAboveRoot
RECURSIVE NormalizeSegs(_, _, _)
NormalizeSegs(segs, acc, allowAboveRoot) ==
  IF segs = <<>> THEN acc
  ELSE LET h == Head(segs)
           t == Tail(segs)
       IN IF h = <<>> \/ h = <<".">> THEN NormalizeSegs(t, acc, allowAboveRoot)
          ELSE IF h = <<".", ".">>
            THEN IF acc # <<>> /\ acc[Len(acc)] # <<".", ".">>
                   THEN NormalizeSegs(t, SubSeq(acc, 1, Len(acc) - 1), allowAboveRoot)
                 ELSE IF allowAboveRoot
                   THEN NormalizeSegs(t, Append(acc, h), allowAboveRoot)
                 ELSE NormalizeSegs(t, acc, allowAboveRoot)
          ELSE NormalizeSegs(t, Append(acc, h), allowAboveRoot)

IsAbsolute(p) == StartsWith(p, <<"/">>)

\* path.normalize(p)
PathNormalize(p) ==
  IF p = <<>> THEN <<".">>
  ELSE LET abs == IsAbsolute(p)
           body == JoinSegs(NormalizeSegs(Split(p), <<>>, ~abs))
           body2 == IF body = <<>> /\ ~abs THEN <<".">> ELSE body
           body3 == IF body2 # <<>> /\ EndsWith(p, <<"/">>)
                      THEN body2 \o <<"/">> ELSE body2
       IN IF abs THEN <<"/">> \o body3 ELSE body3

\* path.join(a, b): the non-empty parts joined by "/" and normalized
PathJoin(a, b) ==
  IF a = <<>> THEN PathNormalize(b)
  ELSE IF b = <<>> THEN PathNormalize(a)
  ELSE PathNormalize(a \o <<"/">> \o b)

\* path.resolve(from, to) for an absolute from: an absolute path without a
\* trailing slash
PathResolve(from, to) ==
  LET full == IF IsAbsolute(to) THEN to ELSE from \o <<"/">> \o to
  IN <<"/">> \o JoinSegs(NormalizeSegs(Split(full), <<>>, FALSE))

\* path.basename(p): the last segment, a trailing slash ignored
PathBasename(p) ==
  LET segs == SelectSeq(Split(p), LAMBDA s : s # <<>>)
  IN IF segs = <<>> THEN <<>> ELSE segs[Len(segs)]


PathJoin3(a, b, c) == PathJoin(PathJoin(a, b), c)

\* ------------------------------------------------------- program constants
\* typescript's ScriptTarget; TargetUndefined is an unset tsConfig.options.target
TargetUndefined == -1
ES3 == 0
ES5 == 1
ES2015 == 2
ES2016 == 3
ES2017 == 4
ES2018 == 5

\* terserEcma and the "ecma: 5" literals of the global-scripts step
terserEcma == 5

\* __dirname of common.ts
DirName == <<"/", "pkg", "/", "models", "/", "webpack-configs">>

Es5PolyfillsJs == PathJoin3(DirName, <<".", ".">>, <<"es5-polyfills", ".", "js">>)
ZoneLegacy == <<"zone", ".", "js", "/", "dist", "/", "zone-legacy">>
JitPolyfillsJs == PathJoin3(DirName, <<".", ".">>, <<"jit-polyfills", ".", "js">>)
Es5JitPolyfillsJs == PathJoin3(DirName, <<".", ".">>, <<"es5-jit-polyfills", ".", "js">>)
SafariNoModuleJs == PathJoin3(DirName, <<".", ".">>, <<"safari-nomodule", ".", "js">>)

NoModuleBundleName == <<"polyfills-nomodule-es5">>

\* const noModuleScript: ExtraEntryPoint = { bundleName, input }: no inject
noModuleScript ==
  [bundleName |-> NoModuleBundleName, input |-> SafariNoModuleJs, inject |-> "undefined"]

NodeModulesError == [kind |-> "error", message |-> <<"Cannot locate node_modules directory.">>]

MixingError(bundleName) ==
  [kind |-> "error",
   message |-> <<"The ">> \o bundleName
               \o <<" bundle is mixing injected and non-injected scripts.">>]

AssetError ==
  [kind |-> "error",
   message |-> <<"An asset cannot be written to a location outside of the output path.">>]

ZoneWarning == <<"WARNING: Zone.js does not support native async/await in ES2017.">>

\* ------------------------------------------------------------------- state
VARIABLES
  wco,      \* the WebpackConfigOptions object the caller holds and passes
  env,      \* ambient state: file system, browserslist, environment switches
  result,   \* what the last call returned or threw
  logged,   \* the messages wco.logger.warn received, in order
  calls     \* number of calls made so far

vars == <<wco, env, result, logged, calls>>

\* ------------------------------------------------------------ entry points
\* the entry map is a JS object: keys in insertion order
EntryHas(entry, key) == \E i \in 1..Len(entry) : entry[i].key = key

\* entryPoints[key] || []
EntryGet(entry, key) ==
  IF EntryHas(entry, key)
    THEN entry[CHOOSE i \in 1..Len(entry) : entry[i].key = key].paths
    ELSE <<>>

MainEntry_noResolve(w) ==
  IF w.buildOptions.main # <<>>
    THEN <<[key |-> "main", paths |-> <<w.buildOptions.main>>]>>
    ELSE <<>>

\* lines 70-72
MainEntry(w) ==
  IF w.buildOptions.main # <<>>
    THEN <<[key |-> "main", paths |-> <<PathResolve(w.root, w.buildOptions.main)>>]>>
    ELSE <<>>

\* lines 119-129: the conditions under which the ES5 polyfills are set up
Es5SupportWanted(w, e) ==
  /\ w.buildOptions.platform # "server"
  /\ w.differentialLoadingMode \/ w.tsConfig.target = ES5
  /\ \/ w.buildOptions.es5BrowserSupport = "true"
     \/ w.buildOptions.es5BrowserSupport = "undefined" /\ e.isEs5SupportNeeded

\* lines 133-141: the value buildOptions.scripts has after the polyfill block
ScriptsAfterNoModule(w, e) ==
  IF Es5SupportWanted(w, e) /\ e.isNoModulePolyfillNeeded
    THEN Append(w.buildOptions.scripts, noModuleScript)
    ELSE w.buildOptions.scripts

PolyfillsEs5Paths_jitFirst(w) ==
  <<Es5PolyfillsJs>>
  \o (IF ~w.buildOptions.aot /\ w.differentialLoadingMode THEN <<JitPolyfillsJs>> ELSE <<>>)
  \o (IF w.differentialLoadingMode THEN <<ZoneLegacy>> ELSE <<>>)
  \o (IF ~w.buildOptions.aot THEN <<Es5JitPolyfillsJs>> ELSE <<>>)
  \o (IF w.buildOptions.polyfills # <<>>
        THEN <<PathResolve(w.root, w.buildOptions.polyfills)>> ELSE <<>>)

\* lines 143-159: the pushes onto entryPoints['polyfills-es5'], in order
PolyfillsEs5Paths(w) ==
  <<Es5PolyfillsJs>>
  \o (IF w.differentialLoadingMode THEN <<ZoneLegacy>> ELSE <<>>)
  \o (IF ~w.buildOptions.aot /\ w.differentialLoadingMode THEN <<JitPolyfillsJs>> ELSE <<>>)
  \o (IF ~w.buildOptions.aot THEN <<Es5JitPolyfillsJs>> ELSE <<>>)
  \o (IF w.buildOptions.polyfills # <<>>
        THEN <<PathResolve(w.root, w.buildOptions.polyfills)>> ELSE <<>>)

\* lines 163-175: the paths spread onto entryPoints['polyfills'], in order
PolyfillsPaths(w) ==
  (IF w.buildOptions.polyfills # <<>>
     THEN <<PathResolve(w.root, w.buildOptions.polyfills)>> ELSE <<>>)
  \o (IF ~w.buildOptions.aot THEN <<JitPolyfillsJs>> ELSE <<>>)

\* lines 63-176: the keys are assigned in this order, each in one block
EntryPoints(w, e) ==
  MainEntry(w)
  \o (IF Es5SupportWanted(w, e)
        THEN <<[key |-> "polyfills-es5", paths |-> PolyfillsEs5Paths(w)]>> ELSE <<>>)
  \o (IF /\ w.buildOptions.platform # "server"
         /\ w.buildOptions.polyfills # <<>> \/ ~w.buildOptions.aot
        THEN <<[key |-> "polyfills", paths |-> PolyfillsPaths(w)]>> ELSE <<>>)

\* ---------------------------------------------------------- global scripts
\* utils.ts getOutputHashFormat: the suffixes of each output-hashing mode;
\* an unknown mode is treated as 'none'
getOutputHashFormat(option) ==
  LET hash == <<".", "[hash:20]">>
      chunkhash == <<".", "[chunkhash:20]">>
  IN CASE option = "media" -> [chunk |-> <<>>, file |-> hash, script |-> <<>>]
       [] option = "bundles" -> [chunk |-> chunkhash, file |-> <<>>, script |-> hash]
       [] option = "all" -> [chunk |-> chunkhash, file |-> hash, script |-> hash]
       [] OTHER -> [chunk |-> <<>>, file |-> <<>>, script |-> <<>>]

\* line 187: getOutputHashFormat(buildOptions.outputHashing || 'none')
HashFormat(w) ==
  getOutputHashFormat(IF w.buildOptions.outputHashing = "" THEN "none"
                      ELSE w.buildOptions.outputHashing)

\* utils.ts normalizeExtraEntryPoints: every entry gets a boolean inject flag,
\* an entry without one is injected
normalizeExtraEntryPoints(entries) ==
  [i \in 1..Len(entries) |->
     [bundleName |-> entries[i].bundleName,
      input |-> entries[i].input,
      inject |-> entries[i].inject # "false"]]

GroupIndex(prev, bundleName) ==
  CHOOSE k \in 1..Len(prev) : prev[k].bundleName = bundleName

RECURSIVE ReduceScripts_noMerge(_, _, _, _)
ReduceScripts_noMerge(root, entries, i, prev) ==
  IF i > Len(entries) THEN [threw |-> FALSE, groups |-> prev]
  ELSE LET curr == entries[i]
           resolvedPath == PathResolve(root, curr.input)
       IN IF /\ \E k \in 1..Len(prev) : prev[k].bundleName = curr.bundleName
             /\ prev[GroupIndex(prev, curr.bundleName)].inject /\ ~curr.inject
            THEN [threw |-> TRUE, bundleName |-> curr.bundleName, groups |-> prev]
            ELSE ReduceScripts_noMerge(root, entries, i + 1,
                   Append(prev, [bundleName |-> curr.bundleName,
                                 paths |-> <<resolvedPath>>,
                                 inject |-> curr.inject]))

\* lines 190-215: the reduce over the normalized scripts, from entry i on
RECURSIVE ReduceScripts(_, _, _, _)
ReduceScripts(root, entries, i, prev) ==
  IF i > Len(entries) THEN [threw |-> FALSE, groups |-> prev]
  ELSE LET curr == entries[i]
           resolvedPath == PathResolve(root, curr.input)
       IN IF \E k \in 1..Len(prev) : prev[k].bundleName = curr.bundleName
            THEN LET k == GroupIndex(prev, curr.bundleName)
                 IN IF prev[k].inject /\ ~curr.inject
                      THEN [threw |-> TRUE, bundleName |-> curr.bundleName, groups |-> prev]
                      ELSE ReduceScripts(root, entries, i + 1,
                             [prev EXCEPT ![k].paths = Append(@, resolvedPath)])
            ELSE ReduceScripts(root, entries, i + 1,
                   Append(prev, [bundleName |-> curr.bundleName,
                                 paths |-> <<resolvedPath>>,
                                 inject |-> curr.inject]))

\* lines 219-233: one ScriptsWebpackPlugin per group
ScriptsPlugins(w, groups) ==
  [i \in 1..Len(groups) |->
     LET script == groups[i]
         hash == IF script.inject THEN HashFormat(w).script ELSE <<>>
     IN [plugin |-> "ScriptsWebpackPlugin",
         name |-> script.bundleName,
         filename |-> PathBasename(script.bundleName) \o hash \o <<".", "js">>,
         scripts |-> script.paths,
         basePath |-> w.projectRoot]]

\* ------------------------------------------------------------------ assets
\* lines 238-259: the map over buildOptions.assets from entry i on; every
\* visited entry is overwritten in place, the throw leaves the rest untouched
RECURSIVE MapAssets(_, _, _, _)
MapAssets(root, assets, i, patterns) ==
  IF i > Len(assets) THEN [threw |-> FALSE, assets |-> assets, patterns |-> patterns]
  ELSE LET asset == assets[i]
           input == AddSlashAtEnd(ReplaceBackslashes(PathResolve(root, asset.input)))
           output == AddSlashAtEnd(asset.output)
           assets1 == [assets EXCEPT ![i] = [asset EXCEPT !.input = input,
                                                          !.output = output]]
       IN IF StartsWith(output, <<".", ".">>)
            THEN [threw |-> TRUE, assets |-> assets1, patterns |-> patterns]
            ELSE MapAssets(root, assets1, i + 1,
                   Append(patterns, [context |-> input,
                                     to |-> RemoveStartingSlash(output),
                                     glob |-> asset.glob]))

\* lines 237-268
CopyPlugins(patterns) ==
  IF patterns # <<>>
    THEN <<[plugin |-> "CopyWebpackPlugin", patterns |-> patterns]>>
    ELSE <<>>

\* lines 270-297 and 311-312: the plugins that depend on one flag each
FlagPlugins(w) ==
  LET bo == w.buildOptions
  IN (IF bo.progress THEN <<[plugin |-> "ProgressPlugin"]>> ELSE <<>>)
     \o (IF bo.showCircularDependencies
           THEN <<[plugin |-> "CircularDependencyPlugin"]>> ELSE <<>>)
     \o (IF bo.statsJson THEN <<[plugin |-> "angular-cli-stats"]>> ELSE <<>>)
     \o (IF bo.namedChunks THEN <<[plugin |-> "NamedLazyChunksPlugin"]>> ELSE <<>>)
     \o (IF bo.buildOptimizer
           THEN <<[plugin |-> "BuildOptimizerWebpackPlugin"]>> ELSE <<>>)


\* lines 74-115 and 178-184: the plugins pushed before the script plugins
EarlyPlugins(w, e) ==
  LET bo == w.buildOptions
  IN (IF bo.main # <<>> /\ bo.experimentalRollupPass
        THEN <<[plugin |-> "ContextReplacementPlugin", pattern |-> "."]>> ELSE <<>>)
     \o (IF bo.profile \/ e.NG_BUILD_PROFILING
           THEN <<[plugin |-> "ProfilingPlugin"]>> ELSE <<>>)

\* -------------------------------------------------------------- minimizers
\* lines 352-373
angularGlobalDefinitions(w) ==
  {"GLOBAL_DEFS_FOR_TERSER"}
  \cup (IF w.buildOptions.aot THEN {"GLOBAL_DEFS_FOR_TERSER_WITH_AOT"} ELSE {})

\* lines 389-403
TerserCompress(w) ==
  IF w.buildOptions.platform = "server"
    THEN [ecma |-> terserEcma,
          global_defs |-> angularGlobalDefinitions(w),
          keep_fnames |-> TRUE]
    ELSE [ecma |-> terserEcma,
          pure_getters |-> w.buildOptions.buildOptimizer,
          passes |-> IF w.buildOptions.buildOptimizer THEN 3 ELSE 1,
          global_defs |-> angularGlobalDefinitions(w)]

TerserMangle_ignoreDifferential(w, e) ==
  ~e.manglingDisabled /\ w.buildOptions.platform # "server"

\* lines 406-409
TerserMangle(w, e) ==
  /\ ~e.manglingDisabled
  /\ w.buildOptions.platform # "server"
  /\ ~w.differentialLoadingMode

\* lines 378-410
terserOptions(w, e) ==
  [warnings |-> w.buildOptions.verbose,
   safari10 |-> TRUE,
   output |-> [ecma |-> terserEcma, webkit |-> TRUE],
   compress |-> TerserCompress(w),
   mangle |-> TerserMangle(w, e)]

\* lines 418-419 and 429-430: chunkFilter applied to a chunk's name; the
\* global-scripts step accepts the names of the script groups, the
\* application step every other name
ChunkFilterAccepts(chunkFilter, chunkName) ==
  IF chunkFilter.onlyGlobalScripts
    THEN \E b \in chunkFilter.bundleNames : b = chunkName
    ELSE ~\E b \in chunkFilter.bundleNames : b = chunkName

TerserPlugins_userScriptsOnly(w, e, groups) ==
  LET bundleNames == {groups[i].bundleName : i \in 1..Len(groups)} \ {NoModuleBundleName}
      base == terserOptions(w, e)
  IN <<[plugin |-> "TerserPlugin",
        chunkFilter |-> [onlyGlobalScripts |-> FALSE, bundleNames |-> bundleNames],
        terserOptions |-> base],
       [plugin |-> "TerserPlugin",
        chunkFilter |-> [onlyGlobalScripts |-> TRUE, bundleNames |-> bundleNames],
        terserOptions |->
          [base EXCEPT !.compress = [@ EXCEPT !.ecma = 5],
                       !.output = [@ EXCEPT !.ecma = 5],
                       !.mangle = ~e.manglingDisabled
                                  /\ w.buildOptions.platform # "server"]]>>

\* lines 412-444: the two TerserPlugin instances; chunkFilter accepts a chunk
\* iff (its name is one of bundleNames) = onlyGlobalScripts
TerserPlugins(w, e, groups) ==
  LET bundleNames == {groups[i].bundleName : i \in 1..Len(groups)}
      base == terserOptions(w, e)
  IN <<[plugin |-> "TerserPlugin",
        chunkFilter |-> [onlyGlobalScripts |-> FALSE, bundleNames |-> bundleNames],
        terserOptions |-> base],
       [plugin |-> "TerserPlugin",
        chunkFilter |-> [onlyGlobalScripts |-> TRUE, bundleNames |-> bundleNames],
        terserOptions |->
          [base EXCEPT !.compress = [@ EXCEPT !.ecma = 5],
                       !.output = [@ EXCEPT !.ecma = 5],
                       !.mangle = ~e.manglingDisabled
                                  /\ w.buildOptions.platform # "server"]]>>

ExtraMinimizers_scriptsFirst(w, e, groups) ==
  (IF w.buildOptions.optimization.scripts THEN TerserPlugins(w, e, groups) ELSE <<>>)
  \o (IF w.buildOptions.optimization.styles
        THEN <<[plugin |-> "CleanCssWebpackPlugin"]>> ELSE <<>>)

\* lines 340-445
ExtraMinimizers(w, e, groups) ==
  (IF w.buildOptions.optimization.styles
     THEN <<[plugin |-> "CleanCssWebpackPlugin"]>> ELSE <<>>)
  \o (IF w.buildOptions.optimization.scripts THEN TerserPlugins(w, e, groups) ELSE <<>>)

\* line 459
Mode(w) ==
  IF w.buildOptions.optimization.scripts \/ w.buildOptions.optimization.styles
    THEN "production" ELSE "development"

Warnings_strictlyNewer(w) ==
  IF w.tsConfig.target # TargetUndefined /\ w.tsConfig.target > ES2017
    THEN <<ZoneWarning>> ELSE <<>>

\* lines 447-456: what the call passes to wco.logger.warn
Warnings(w) ==
  IF w.tsConfig.target # TargetUndefined /\ w.tsConfig.target >= ES2017
    THEN <<ZoneWarning>> ELSE <<>>

\* lines 331-338: the rxjs alias table, empty when the path mapping module
\* cannot be resolved
Alias(w, e) ==
  IF e.rxjsPathMapping
    THEN {IF w.supportES2015 THEN "rxjs/_esm2015" ELSE "rxjs/_esm5"}
    ELSE {}

\* lines 458-545: the returned configuration
Configuration(w, e, entry, groups, patterns) ==
  [kind |-> "config",
   mode |-> Mode(w),
   profile |-> w.buildOptions.statsJson,
   alias |-> Alias(w, e),
   context |-> w.projectRoot,
   entry |-> entry,
   outputPath |-> PathResolve(w.root, w.buildOptions.outputPath),
   outputFilename |-> <<"[name]">> \o HashFormat(w).chunk \o <<".", "js">>,
   minimizer |-> <<[plugin |-> "HashedModuleIdsPlugin"],
                   [plugin |-> "BundleBudgetPlugin"]>>
                 \o ExtraMinimizers(w, e, groups),
   plugins |-> <<[plugin |-> "ContextReplacementPlugin", pattern |-> "@angular/core"]>>
               \o EarlyPlugins(w, e)
               \o ScriptsPlugins(w, groups)
               \o CopyPlugins(patterns)
               \o FlagPlugins(w)]

\* ----------------------------------------------------------- the operation
\* lines 46-546: the options object as the call leaves it, what the call
\* returns or throws, and what it logs
Assemble(w, e) ==
  IF ~e.nodeModules
    THEN [buildOptions |-> w.buildOptions, outcome |-> NodeModulesError, warnings |-> <<>>]
  ELSE
    LET entry == EntryPoints(w, e)
        bo1 == [w.buildOptions EXCEPT !.scripts = ScriptsAfterNoModule(w, e)]
        reduced == ReduceScripts(w.root, normalizeExtraEntryPoints(bo1.scripts), 1, <<>>)
    IN IF reduced.threw
         THEN [buildOptions |-> bo1,
               outcome |-> MixingError(reduced.bundleName),
               warnings |-> <<>>]
       ELSE
         LET mapped == MapAssets(w.root, bo1.assets, 1, <<>>)
             bo2 == [bo1 EXCEPT !.assets = mapped.assets]
             w2 == [w EXCEPT !.buildOptions = bo2]
         IN IF mapped.threw
              THEN [buildOptions |-> bo2, outcome |-> AssetError, warnings |-> <<>>]
              ELSE [buildOptions |-> bo2,
                    outcome |-> Configuration(w2, e, entry, reduced.groups, mapped.patterns),
                    warnings |-> Warnings(w)]

getCommonConfig ==
  /\ calls < MaxCalls
  /\ LET r == Assemble(wco, env)
     IN /\ wco' = [wco EXCEPT !.buildOptions = r.buildOptions]
        /\ result' = r.outcome
        /\ logged' = logged \o r.warnings
  /\ calls' = calls + 1
  /\ UNCHANGED env

Next == getCommonConfig


\* ---------------------------------------------------------- initial states
Root == <<"/", "w">>
ProjectRoot == <<"/", "w", "/", "app">>
MainTs == <<"src", "/", "main", ".", "ts">>
PolyfillsTs == <<"src", "/", "polyfills", ".", "ts">>

DefaultBuildOptions ==
  [main |-> MainTs, polyfills |-> <<>>, platform |-> "browser", aot |-> FALSE,
   es5BrowserSupport |-> "undefined", scripts |-> <<>>, assets |-> <<>>,
   outputHashing |-> "", outputPath |-> <<"dist">>,
   optimization |-> [scripts |-> FALSE, styles |-> FALSE],
   buildOptimizer |-> FALSE, verbose |-> FALSE, experimentalRollupPass |-> FALSE,
   profile |-> FALSE, progress |-> FALSE, showCircularDependencies |-> FALSE,
   statsJson |-> FALSE, namedChunks |-> FALSE]

DefaultWco ==
  [root |-> Root, projectRoot |-> ProjectRoot, buildOptions |-> DefaultBuildOptions,
   tsConfig |-> [target |-> ES5], differentialLoadingMode |-> FALSE,
   supportES2015 |-> FALSE]

DefaultEnv ==
  [nodeModules |-> TRUE, isEs5SupportNeeded |-> FALSE,
   isNoModulePolyfillNeeded |-> FALSE, manglingDisabled |-> FALSE,
   rxjsPathMapping |-> TRUE, NG_BUILD_PROFILING |-> FALSE]

InitCall ==
  /\ result = [kind |-> "none"]
  /\ logged = <<>>
  /\ calls = 0

SeqsUpTo(S, n) == UNION {[1..k -> S] : k \in 0..n}

ScriptInputs == {<<"a", ".", "js">>, <<"lib", "/", "b", ".", "js">>}
BundleNames == {<<"scripts">>, <<"lib", "/", "vendor">>}

ScriptEntries ==
  [bundleName : BundleNames, input : ScriptInputs, inject : {"true", "false"}]

\* global scripts: every list of up to MaxScripts entries, every hashing
\* mode, with and without the nomodule polyfill
InitScripts ==
  /\ InitCall
  /\ \E scripts \in SeqsUpTo(ScriptEntries, MaxScripts),
        hashing \in {"", "none", "media", "bundles", "all"} :
       wco = [DefaultWco EXCEPT !.buildOptions.scripts = scripts,
                                !.buildOptions.outputHashing = hashing,
                                !.buildOptions.es5BrowserSupport = "true",
                                !.differentialLoadingMode = TRUE,
                                !.tsConfig.target = ES2015]
  /\ \E nm \in BOOLEAN : env = [DefaultEnv EXCEPT !.isNoModulePolyfillNeeded = nm]

OutChars == {".", "/", "a"}
AssetOutputs == SeqsUpTo(OutChars, MaxOutLen)
AssetEntries ==
  [input : {<<"src", "/", "assets">>}, output : AssetOutputs, glob : {<<"**/*">>}]

\* assets: every list of up to MaxAssets entries whose output path is any
\* string of up to MaxOutLen characters
InitAssets ==
  /\ InitCall
  /\ \E assets \in SeqsUpTo(AssetEntries, MaxAssets) :
       wco = [DefaultWco EXCEPT !.buildOptions.assets = assets]
  /\ \E found \in BOOLEAN : env = [DefaultEnv EXCEPT !.nodeModules = found]

\* entry points: every combination of the options and ambient answers the
\* entry map depends on
InitEntries ==
  /\ InitCall
  /\ \E main \in {<<>>, MainTs, <<"/", "abs", "/", "main", ".", "ts">>,
                  <<".", ".", "/", "main", ".", "ts">>},
        polyfills \in {<<>>, PolyfillsTs},
        platform \in {"browser", "server"},
        aot \in BOOLEAN,
        es5 \in {"true", "false", "undefined"},
        dl \in BOOLEAN,
        target \in {TargetUndefined, ES5, ES2015, ES2017} :
       wco = [DefaultWco EXCEPT !.buildOptions.main = main,
                                !.buildOptions.polyfills = polyfills,
                                !.buildOptions.platform = platform,
                                !.buildOptions.aot = aot,
                                !.buildOptions.es5BrowserSupport = es5,
                                !.differentialLoadingMode = dl,
                                !.tsConfig.target = target]
  /\ \E needed \in BOOLEAN, nm \in BOOLEAN :
       env = [DefaultEnv EXCEPT !.isEs5SupportNeeded = needed,
                                !.isNoModulePolyfillNeeded = nm]

InjectedScriptEntries ==
  [bundleName : BundleNames, input : {<<"a", ".", "js">>}, inject : {"true"}]

\* minimizers: every combination of the options the minimizer list and the
\* mode depend on
InitMinimizers ==
  /\ InitCall
  /\ \E os \in BOOLEAN, ost \in BOOLEAN, platform \in {"browser", "server"},
        aot \in BOOLEAN, bo \in BOOLEAN, dl \in BOOLEAN,
        scripts \in SeqsUpTo(InjectedScriptEntries, MaxScripts) :
       wco = [DefaultWco EXCEPT !.buildOptions.optimization = [scripts |-> os, styles |-> ost],
                                !.buildOptions.platform = platform,
                                !.buildOptions.aot = aot,
                                !.buildOptions.buildOptimizer = bo,
                                !.buildOptions.scripts = scripts,
                                !.buildOptions.es5BrowserSupport = "true",
                                !.differentialLoadingMode = dl]
  /\ \E md \in BOOLEAN, rx \in BOOLEAN, nm \in BOOLEAN :
       env = [DefaultEnv EXCEPT !.manglingDisabled = md, !.rxjsPathMapping = rx,
                                !.isNoModulePolyfillNeeded = nm]

OneBundleScriptEntries ==
  [bundleName : {<<"scripts">>}, input : {<<"a", ".", "js">>}, inject : {"true", "false"}]

\* outputs 'a', '../a' and '/..'
TraversalAssetEntries ==
  [input : {<<"src", "/", "assets">>},
   output : {<<"a">>, <<".", ".", "/", "a">>, <<"/", ".", ".">>},
   glob : {<<"**/*">>}]

\* warning: every compiler target against every way a call can abort
InitWarning ==
  /\ InitCall
  /\ \E target \in {TargetUndefined, ES3, ES5, ES2016, ES2017, ES2018},
        scripts \in SeqsUpTo(OneBundleScriptEntries, MaxScripts),
        assets \in SeqsUpTo(TraversalAssetEntries, MaxAssets) :
       wco = [DefaultWco EXCEPT !.tsConfig.target = target,
                                !.buildOptions.scripts = scripts,
                                !.buildOptions.assets = assets]
  /\ \E found \in BOOLEAN : env = [DefaultEnv EXCEPT !.nodeModules = found]

SpecScripts == InitScripts /\ [][Next]_vars
SpecAssets == InitAssets /\ [][Next]_vars
SpecEntries == InitEntries /\ [][Next]_vars
SpecMinimizers == InitMinimizers /\ [][Next]_vars
SpecWarning == InitWarning /\ [][Next]_vars


\* ================================================================== claims
\* the scripts the last call processed, normalized (the call leaves the list
\* it processed in buildOptions.scripts)
ProcessedScripts == normalizeExtraEntryPoints(wco.buildOptions.scripts)

ScriptsPluginsOf(config) ==
  SelectSeq(config.plugins, LAMBDA p : p.plugin = "ScriptsWebpackPlugin")

CopyPatternsOf(config) ==
  LET cp == SelectSeq(config.plugins, LAMBDA p : p.plugin = "CopyWebpackPlugin")
  IN IF cp = <<>> THEN <<>> ELSE cp[1].patterns

\* bundle names under which two scripts carry different injection flags
MixedBundles(entries) ==
  {entries[i].bundleName : i \in
     {i \in 1..Len(entries) :
        \E j \in 1..Len(entries) :
          /\ entries[j].bundleName = entries[i].bundleName
          /\ entries[j].inject # entries[i].inject}}

\* C1: whenever two global scripts share a bundle name and differ in their
\* injection flag, in either order, the call throws the mixing error naming
\* such a bundle and returns no configuration.
C1_MixedFlagsFail ==
  (calls > 0 /\ env.nodeModules /\ MixedBundles(ProcessedScripts) # {})
    => \E b \in MixedBundles(ProcessedScripts) : result = MixingError(b)

\* where the bundler writes a pattern's files: path.join(output path, to)
Destination(config, pattern) == PathJoin(config.outputPath, pattern.to)

\* dir is path, or an ancestor directory of it
IsInside(path, dir) ==
  LET ps == SelectSeq(Split(path), LAMBDA x : x # <<>>)
      ds == SelectSeq(Split(dir), LAMBDA x : x # <<>>)
  IN Len(ps) >= Len(ds) /\ SubSeq(ps, 1, Len(ds)) = ds

\* C2: whenever the call returns a configuration, the destination of every
\* asset copy pattern lies inside the configured output directory.
C2_AssetsStayInsideOutput ==
  result.kind = "config"
    => \A i \in 1..Len(CopyPatternsOf(result)) :
         IsInside(Destination(result, CopyPatternsOf(result)[i]), result.outputPath)

\* C3: a second call with the same options object and the same ambient state
\* returns (or throws) exactly what the first call did.
C3_SecondCallSameOutput == [][calls >= 1 => result' = result]_vars

\* C4: a call, whether it returns or throws, leaves every field of the build
\* options it was given as it was.
C4_OptionsUnchanged == [][wco'.buildOptions = wco.buildOptions]_vars

\* the five steps of the ES5 polyfills bundle with their triggering flags
PolyfillsEs5Steps ==
  <<[path |-> Es5PolyfillsJs, on |-> TRUE],
    [path |-> ZoneLegacy, on |-> wco.differentialLoadingMode],
    [path |-> JitPolyfillsJs,
     on |-> ~wco.buildOptions.aot /\ wco.differentialLoadingMode],
    [path |-> Es5JitPolyfillsJs, on |-> ~wco.buildOptions.aot],
    [path |-> PathResolve(wco.root, wco.buildOptions.polyfills),
     on |-> wco.buildOptions.polyfills # <<>>]>>

PathsOf(steps) == [i \in 1..Len(steps) |-> steps[i].path]

\* C5: when the 'polyfills-es5' bundle exists its path sequence is the fixed
\* five-step list with exactly the steps whose flags hold, in that order,
\* the compat shim first, nothing duplicated.
C5_PolyfillsEs5Order ==
  (result.kind = "config" /\ EntryHas(result.entry, "polyfills-es5"))
    => /\ EntryGet(result.entry, "polyfills-es5")
            = PathsOf(SelectSeq(PolyfillsEs5Steps, LAMBDA st : st.on))
       /\ EntryGet(result.entry, "polyfills-es5")[1] = Es5PolyfillsJs

C5_Witness ==
  /\ result.kind = "config"
  /\ Len(EntryGet(result.entry, "polyfills-es5")) = 5
  /\ wco.differentialLoadingMode /\ ~wco.buildOptions.aot

\* the inputs of the processed scripts of one bundle, resolved, in input order
PathsOfBundle(bundleName) ==
  LET mine == SelectSeq(ProcessedScripts, LAMBDA s : s.bundleName = bundleName)
  IN [i \in 1..Len(mine) |-> PathResolve(wco.root, mine[i].input)]

\* the injection flag of a bundle: that of its first script
InjectOfBundle(bundleName) ==
  SelectSeq(ProcessedScripts, LAMBDA s : s.bundleName = bundleName)[1].inject

\* C6: the returned plugins hold exactly one ScriptsWebpackPlugin per distinct
\* bundle name, with that bundle's paths in input order; a lazy bundle's file
\* name is its base name plus ".js" in every hashing mode, an injected
\* bundle's file name carries the script suffix of the hash format.
C6_OnePluginPerBundle ==
  result.kind = "config" =>
    LET sp == ScriptsPluginsOf(result)
    IN /\ \A i, j \in 1..Len(sp) : sp[i].name = sp[j].name => i = j
       /\ {sp[i].name : i \in 1..Len(sp)}
            = {ProcessedScripts[k].bundleName : k \in 1..Len(ProcessedScripts)}
       /\ \A i \in 1..Len(sp) :
            /\ sp[i].scripts = PathsOfBundle(sp[i].name)
            /\ ~InjectOfBundle(sp[i].name)
                 => sp[i].filename = PathBasename(sp[i].name) \o <<".", "js">>
            /\ InjectOfBundle(sp[i].name)
                 => sp[i].filename = PathBasename(sp[i].name)
                                     \o HashFormat(wco).script \o <<".", "js">>

C6_Witness ==
  /\ result.kind = "config"
  /\ wco.buildOptions.outputHashing = "all"
  /\ \E i, j \in 1..Len(ScriptsPluginsOf(result)) :
       LET sp == ScriptsPluginsOf(result)
       IN /\ ~InjectOfBundle(sp[i].name)
          /\ Len(sp[i].scripts) = 2
          /\ sp[i].filename = <<"vendor", ".", "js">>
          /\ InjectOfBundle(sp[j].name)
          /\ sp[j].filename = <<"scripts", ".", "[hash:20]", ".", "js">>

MinimizerNames(config) == [i \in 1..Len(config.minimizer) |-> config.minimizer[i].plugin]

\* C7: the mode is 'development' exactly when script and style optimization
\* are both off; the minimizer list is module-id hashing, budget, then the
\* style minifier iff style optimization is on, then the two JS minifier
\* steps iff script optimization is on.
C7_ModeAndMinimizers ==
  result.kind = "config" =>
    LET opt == wco.buildOptions.optimization
    IN /\ (result.mode = "development") <=> (~opt.scripts /\ ~opt.styles)
       /\ result.mode \in {"development", "production"}
       /\ MinimizerNames(result)
            = <<"HashedModuleIdsPlugin", "BundleBudgetPlugin">>
              \o (IF opt.styles THEN <<"CleanCssWebpackPlugin">> ELSE <<>>)
              \o (IF opt.scripts THEN <<"TerserPlugin", "TerserPlugin">> ELSE <<>>)

C7_Witness ==
  /\ result.kind = "config"
  /\ wco.buildOptions.optimization = [scripts |-> TRUE, styles |-> TRUE]
  /\ Len(result.minimizer) = 5
  /\ result.mode = "production"

\* C8: without a main file the entry map has no 'main' key; with one, the
\* 'main' entry is the one-element sequence of the main path resolved against
\* the workspace root.
C8_MainEntry ==
  result.kind = "config" =>
    IF wco.buildOptions.main = <<>>
      THEN ~EntryHas(result.entry, "main")
      ELSE /\ Len(SelectSeq(result.entry, LAMBDA en : en.key = "main")) = 1
           /\ EntryGet(result.entry, "main")
                = <<PathResolve(wco.root, wco.buildOptions.main)>>

C8_Witness ==
  /\ result.kind = "config"
  /\ wco.buildOptions.main = MainTs
  /\ wco.buildOptions.polyfills # <<>>
  /\ EntryHas(result.entry, "polyfills-es5")
  /\ EntryGet(result.entry, "main") = <<<<"/", "w", "/", "src", "/", "main", ".", "ts">>>>

\* the three conditions under which the call throws
FatalCondition(w, e) ==
  LET entries == normalizeExtraEntryPoints(ScriptsAfterNoModule(w, e))
  IN \/ ~e.nodeModules
     \/ \E i, j \in 1..Len(entries) :
          /\ i < j
          /\ entries[i].bundleName = entries[j].bundleName
          /\ entries[i].inject /\ ~entries[j].inject
     \/ \E i \in 1..Len(w.buildOptions.assets) :
          StartsWith(w.buildOptions.assets[i].output, <<".", ".">>)

WarningDue(w) == w.tsConfig.target # TargetUndefined /\ w.tsConfig.target >= ES2017

TerserOf(config, onlyGlobalScripts) ==
  SelectSeq(config.minimizer,
            LAMBDA m : /\ m.plugin = "TerserPlugin"
                       /\ m.chunkFilter.onlyGlobalScripts = onlyGlobalScripts)

\* C10: with script optimization on, the application step mangles names iff
\* the platform is not 'server', differential loading is off and mangling is
\* not disabled by the environment; the global-scripts step has ecma 5 in
\* compress and output and mangles iff the platform is not 'server' and
\* mangling is not disabled by the environment.
C10_Mangling ==
  (result.kind = "config" /\ wco.buildOptions.optimization.scripts) =>
    /\ Len(TerserOf(result, FALSE)) = 1
    /\ Len(TerserOf(result, TRUE)) = 1
    /\ LET app == TerserOf(result, FALSE)[1].terserOptions
           glob == TerserOf(result, TRUE)[1].terserOptions
       IN /\ app.mangle <=> ~(\/ wco.buildOptions.platform = "server"
                              \/ wco.differentialLoadingMode
                              \/ env.manglingDisabled)
          /\ glob.compress.ecma = 5
          /\ glob.output.ecma = 5
          /\ glob.mangle <=> ~(\/ wco.buildOptions.platform = "server"
                               \/ env.manglingDisabled)

C10_Witness ==
  /\ result.kind = "config"
  /\ wco.buildOptions.optimization.scripts
  /\ wco.differentialLoadingMode
  /\ ~TerserOf(result, FALSE)[1].terserOptions.mangle
  /\ TerserOf(result, TRUE)[1].terserOptions.mangle


\* names a chunk can have: the script bundles, the entry chunks, a chunk that
\* shares only its base name with a script bundle, and a chunk without a name
ChunkNames ==
  {ProcessedScripts[k].bundleName : k \in 1..Len(ProcessedScripts)}
  \cup BundleNames
  \cup {NoModuleBundleName, <<"main">>, <<"polyfills">>, <<"polyfills-es5">>,
        <<"vendor">>, <<>>}

\* C11: with script optimization on, every chunk name is accepted by exactly
\* one of the two JS minifier steps, and by the global-scripts step iff it is
\* the bundle name of a global-script group, the automatically added
\* 'polyfills-nomodule-es5' group included.
C11_ChunkFiltersPartition ==
  (result.kind = "config" /\ wco.buildOptions.optimization.scripts) =>
    /\ Len(TerserOf(result, FALSE)) = 1
    /\ Len(TerserOf(result, TRUE)) = 1
    /\ \A c \in ChunkNames :
         LET app == ChunkFilterAccepts(TerserOf(result, FALSE)[1].chunkFilter, c)
             glob == ChunkFilterAccepts(TerserOf(result, TRUE)[1].chunkFilter, c)
         IN /\ app # glob
            /\ glob <=> \E k \in 1..Len(ProcessedScripts) :
                          ProcessedScripts[k].bundleName = c

C11_Witness ==
  /\ result.kind = "config"
  /\ wco.buildOptions.optimization.scripts
  /\ \E k \in 1..Len(ProcessedScripts) : ProcessedScripts[k].bundleName = <<"lib", "/", "vendor">>
  /\ ChunkFilterAccepts(TerserOf(result, TRUE)[1].chunkFilter, NoModuleBundleName)
  /\ ~ChunkFilterAccepts(TerserOf(result, FALSE)[1].chunkFilter, <<"lib", "/", "vendor">>)
  /\ ChunkFilterAccepts(TerserOf(result, FALSE)[1].chunkFilter, <<"vendor">>)
  /\ ~ChunkFilterAccepts(TerserOf(result, TRUE)[1].chunkFilter, <<"scripts">>)

====
